---- MODULE Spec2Model ----
(***************************************************************************)
(* Model of torch_geometric/nn/aggr/base.py: the call contract of          *)
(* Aggregation and WeightedAggregation (validation, group-count inference, *)
(* delegation to the concrete strategy, fault re-interpretation) and the   *)
(* reduction primitives reduce / weighted_reduce with their scatter and    *)
(* segment collaborators.                                                  *)
(*                                                                         *)
(* An optional Python value is a tuple: <<>> is None, <<v>> is the value v.*)
(* A tensor is a record [shape, data]: shape is the tuple of axis lengths, *)
(* data maps every coordinate tuple (1-based) to its element.              *)
(***************************************************************************)
EXTENDS Integers, Sequences, FiniteSets, TLC

\* ------------------------------------------------------------------ bounds

\* Largest length of an axis of x, of index and of weight.
MaxLen == 2

\* Largest group id an index entry may carry.
MaxGroup == 1

\* ------------------------------------------------------------ Python values

None == << >>

Some(v) == << v >>

IsNone(o) == o = << >>

\* name occurs in the log of callables.
Has(log, name) == \E i \in 1..Len(log) : log[i] = name

Val(o) == o[1]

\* A fault is the exception the caller (or the handler) sees: its Python
\* type, which message it carries and the (up to two) numbers the message
\* reports.  NoFault stands for "no exception".
NoFault == [type |-> "none", msg |-> "none", a |-> 0, b |-> 0]

Fault(type, msg, a, b) == [type |-> type, msg |-> msg, a |-> a, b |-> b]

\* The result of a callable: the fault it raised (or NoFault), the tensor it
\* returned (an optional) and the collaborators it invoked, in order.
Raise(f, log) == [fault |-> f, out |-> None, calls |-> log]

Return(t, log) == [fault |-> NoFault, out |-> Some(t), calls |-> log]

\* ------------------------------------------------------------------ tensors

RECURSIVE SeqMax(_)
SeqMax(s) == IF s = << >> THEN 0
             ELSE LET m == SeqMax(Tail(s)) IN IF Head(s) > m THEN Head(s) ELSE m

\* All coordinate tuples of a tensor of the given shape.
Coords(shape) ==
    { c \in [1..Len(shape) -> 1..SeqMax(shape)] :
        \A k \in 1..Len(shape) : c[k] <= shape[k] }

Fill(shape, v) == [shape |-> shape, data |-> [c \in Coords(shape) |-> v]]

\* x.dim()
Rank(t) == Len(t.shape)

\* The 1-based axis a valid Python dim addresses.
Axis(t, dim) == IF dim < 0 THEN dim + Rank(t) + 1 ELSE dim + 1

\* x.size(dim) of a dim that addresses an axis.
Size(t, dim) == IF Axis(t, dim) \in 1..Rank(t) THEN t.shape[Axis(t, dim)] ELSE 0

\* x.size(dim) raises: dim addresses no axis of x.
SizeRaises(t, dim) == Axis(t, dim) \notin 1..Rank(t)

\* index.max()
IndexMax(index) == SeqMax(index)

ReplaceAt(c, k, v) == [c EXCEPT ![k] = v]

\* Element-wise x * weight.view(sizes): weight is rank-1 and runs along
\* axis k of x.
MulAlong(t, w, k) ==
    [shape |-> t.shape,
     data |-> [c \in Coords(t.shape) |-> t.data[c] * w.data[<< c[k] >>]]]

\* ------------------------------------------------- reduction collaborators

ReduceKinds == {"sum", "mean", "max", "min", "mul"}

\* The running value of one output element: how many inputs it has taken
\* and what they reduce to so far.
Identity(kind) == [n |-> 0, v |-> IF kind = "mul" THEN 1 ELSE 0]

Combine(kind, acc, e) ==
    [n |-> acc.n + 1,
     v |-> CASE kind \in {"sum", "mean"} -> acc.v + e
             [] kind = "mul" -> acc.v * e
             [] kind = "max" -> IF acc.n = 0 \/ e > acc.v THEN e ELSE acc.v
             [] kind = "min" -> IF acc.n = 0 \/ e < acc.v THEN e ELSE acc.v]

\* The value written to the output, kept as the exact fraction
\* <<numerator, denominator>>: a mean is sum over count (count clamped to 1
\* for a group without elements), every other kind its number over 1 (a
\* group without elements keeps the identity).
Finalize(kind, acc) ==
    IF kind = "mean" THEN << acc.v, IF acc.n > 0 THEN acc.n ELSE 1 >>
    ELSE << acc.v, 1 >>

\* scatter: the elements 1..i of the fibre through c along axis k, each
\* added to the output row its index entry names.
RECURSIVE ScatterAcc(_, _, _, _, _, _)
ScatterAcc(src, index, k, c, i, kind) ==
    IF i = 0 THEN Identity(kind)
    ELSE LET prev == ScatterAcc(src, index, k, c, i - 1, kind)
         IN IF index[i] = c[k] - 1
            THEN Combine(kind, prev, src.data[ReplaceAt(c, k, i)])
            ELSE prev

\* scatter(x, index, dim, dim_size, reduce) of the tensor engine: a shape
\* fault when index does not hold one entry per element, an index fault
\* when an entry names no row of the output, else the reduced tensor with
\* dim_size rows along dim.
scatter(src, index, dim, dim_size, kind) ==
    LET k == Axis(src, dim)
        n == Size(src, dim)
        shape == ReplaceAt(src.shape, k, dim_size)
    IN IF Len(index) # n
       THEN Raise(Fault("RuntimeError", "shape_mismatch", Len(index), n),
                  << "scatter" >>)
       ELSE IF \E i \in 1..n : index[i] < 0 \/ index[i] >= dim_size
       THEN Raise(Fault("IndexError", "index_out_of_range",
                        IndexMax(index), dim_size), << "scatter" >>)
       ELSE Return([shape |-> shape,
                    data |-> [c \in Coords(shape) |->
                        Finalize(kind, ScatterAcc(src, index, k, c, n, kind))]],
                   << "scatter" >>)

\* segment: the elements lo+1..hi (the slice [lo, hi) in 0-based terms) of
\* the fibre through c along axis k.
RECURSIVE SegmentAcc(_, _, _, _, _, _)
SegmentAcc(src, k, c, lo, hi, kind) ==
    IF hi <= lo THEN Identity(kind)
    ELSE Combine(kind, SegmentAcc(src, k, c, lo, hi - 1, kind),
                 src.data[ReplaceAt(c, k, hi)])

\* segment(x, ptr, reduce) of the tensor engine: the missing-capability
\* fault when the segment kernel is not part of the build, else one output
\* row per pointer interval along the axis the expanded ptr is aligned to.
segment(src, eptr, kind, withSegment) ==
    LET k == eptr.lead + 1
        shape == ReplaceAt(src.shape, k, Len(eptr.ptr) - 1)
    IN IF ~withSegment
       THEN Raise(Fault("ImportError", "segment_requires", 0, 0),
                  << "segment" >>)
       ELSE Return([shape |-> shape,
                    data |-> [c \in Coords(shape) |->
                        Finalize(kind, SegmentAcc(src, k, c, eptr.ptr[c[k]],
                                                  eptr.ptr[c[k] + 1], kind))]],
                   << "segment" >>)

\* expand_left(ptr, dim, dims): ptr preceded by as many unit axes as there
\* are axes of x before the aggregation axis.
expand_left(ptr, dim, dims) ==
    [lead |-> IF dim < 0 THEN dims + dim ELSE dim, ptr |-> ptr]

\* ------------------------------------------------------- base.py: helpers

\* isinstance(e, cls) for the exception types the module meets:
\* NotImplementedError is a subclass of RuntimeError.
IsInstance(type, cls) ==
    \/ type = cls
    \/ type = "NotImplementedError" /\ cls = "RuntimeError"

\* Aggregation.assert_index_present
assert_index_present(index) ==
    IF IsNone(index)
    THEN Fault("NotImplementedError", "requires_index", 0, 0)
    ELSE NoFault

\* WeightedAggregation.assert_weight_present
assert_weight_present(weight) ==
    IF IsNone(weight)
    THEN Fault("NotImplementedError", "requires_weight", 0, 0)
    ELSE NoFault

\* Faulty variant of reduce: the pointer path drops the reduction kind and falls
\* back to segment's default, the sum.
reduce_DefaultKind(x, index, ptr, dim_size, dim, kind, withSegment) ==
    IF ~IsNone(ptr)
    THEN segment(x, expand_left(Val(ptr), dim, Rank(x)), "sum", withSegment)
    ELSE IF IsNone(index)
    THEN Raise(Fault("AssertionError", "index_is_none", 0, 0), << >>)
    ELSE scatter(x, Val(index), dim, Val(dim_size), kind)

\* Faulty variant of reduce: the index path drops dim_size, so that scatter sizes
\* the output by the largest group id it meets.
reduce_InferSize(x, index, ptr, dim_size, dim, kind, withSegment) ==
    IF ~IsNone(ptr)
    THEN segment(x, expand_left(Val(ptr), dim, Rank(x)), kind, withSegment)
    ELSE IF IsNone(index)
    THEN Raise(Fault("AssertionError", "index_is_none", 0, 0), << >>)
    ELSE scatter(x, Val(index), dim, IndexMax(Val(index)) + 1, kind)

\* Aggregation.reduce
reduce(x, index, ptr, dim_size, dim, kind, withSegment) ==
    IF ~IsNone(ptr)
    THEN segment(x, expand_left(Val(ptr), dim, Rank(x)), kind, withSegment)
    ELSE IF IsNone(index)
    THEN Raise(Fault("AssertionError", "index_is_none", 0, 0), << >>)
    ELSE scatter(x, Val(index), dim, Val(dim_size), kind)

\* WeightedAggregation.weighted_reduce
weighted_reduce(x, index, weight, ptr, dim_size, dim, kind, withSegment) ==
    IF assert_weight_present(weight) # NoFault
    THEN Raise(assert_weight_present(weight), << >>)
    ELSE IF ~IsNone(ptr)
    THEN segment(MulAlong(x, Val(weight), Axis(x, dim)),
                 expand_left(Val(ptr), dim, Rank(x)), kind, withSegment)
    ELSE scatter(MulAlong(x, Val(weight), Axis(x, dim)), Val(index), dim,
                 Val(dim_size), kind)

\* -------------------------------------------------- the concrete strategies

\* Strategies that reduce directly and support both addressing modes.
DirectStrategies == {"sum", "mean", "max", "min"}

\* Strategies whose __call__ is WeightedAggregation.__call__.
WeightedStrategies == {"wmean"}

Strategies == DirectStrategies \cup {"mul"} \cup WeightedStrategies

\* The strategies the calls are made on: one of each kind of forward.
CalledStrategies == {"mean", "mul", "wmean"}

\* forward of the concrete strategy: Sum/Mean/Max/Min reduce directly, Mul
\* requires index and reduces by index only, WeightedMean is the weighted
\* sum of weighted_reduce.
forward(strategy, x, index, weight, ptr, dim_size, dim, withSegment) ==
    LET r == CASE strategy \in DirectStrategies ->
                    reduce(x, index, ptr, dim_size, dim, strategy, withSegment)
               [] strategy = "mul" ->
                    IF assert_index_present(index) # NoFault
                    THEN Raise(assert_index_present(index), << >>)
                    ELSE reduce(x, index, None, dim_size, dim, "mul",
                                withSegment)
               [] strategy = "wmean" ->
                    weighted_reduce(x, index, weight, ptr, dim_size, dim,
                                    "sum", withSegment)
    IN [r EXCEPT !.calls = << "forward" >> \o r.calls]

\* ------------------------------------------ base.py: Aggregation.__call__

\* Faulty variant of DimInvalid: negative dims are rejected.
DimInvalid_NoNegative(x, dim) == dim >= Rank(x) \/ dim < 0

\* The dimension check: dim addresses no axis of x.
DimInvalid(x, dim) == dim >= Rank(x) \/ dim < -Rank(x)

InvalidDimension(x, dim) == Fault("ValueError", "invalid_dimension", dim, Rank(x))

Zeros(n) == [i \in 1..n |-> 0]

\* Faulty variant of PtrGroups: the number of boundaries, not of groups.
PtrGroups_NoMinus(ptr) == Len(ptr)

\* ptr.numel() - 1: the number of groups ptr delimits.
PtrGroups(ptr) == Len(ptr) - 1

\* Faulty variant of InferDimSize: the largest group id, not the group count.
InferDimSize_NoPlusOne(index) == IF Len(index) > 0 THEN IndexMax(index) ELSE 0

\* int(index.max()) + 1 if index.numel() > 0 else 0
InferDimSize(index) == IF Len(index) > 0 THEN IndexMax(index) + 1 ELSE 0

\* Resolution of the grouping: the index and dim_size handed to the
\* strategy, or the ptr/dim_size mismatch fault.
ResolveGrouping(x, index, ptr, dim_size, dim) ==
    LET index1 == IF IsNone(index) /\ IsNone(ptr)
                  THEN Some(Zeros(Size(x, dim))) ELSE index
        mismatch == /\ ~IsNone(ptr)
                    /\ ~IsNone(dim_size)
                    /\ Val(dim_size) # PtrGroups(Val(ptr))
        dim_size1 == IF ~IsNone(ptr) /\ IsNone(dim_size)
                     THEN Some(PtrGroups(Val(ptr))) ELSE dim_size
        dim_size2 == IF ~IsNone(index1) /\ IsNone(dim_size1)
                     THEN Some(InferDimSize(Val(index1))) ELSE dim_size1
    IN IF mismatch
       THEN [fault |-> Fault("ValueError", "dim_size_expected", Val(dim_size),
                             PtrGroups(Val(ptr))),
             index |-> index1, dim_size |-> dim_size]
       ELSE [fault |-> NoFault, index |-> index1, dim_size |-> dim_size2]

\* The exception types the handler around the strategy catches.
Caught(type) == IsInstance(type, "IndexError") \/ IsInstance(type, "RuntimeError")

\* Faulty variant of Reinterpret: dim_size = max(index) is not re-interpreted.
Reinterpret_Strict(e, index, dim_size) ==
    IF /\ Caught(e.type)
       /\ ~IsNone(index)
       /\ Len(Val(index)) > 0
       /\ Val(dim_size) < IndexMax(Val(index))
    THEN Fault("ValueError", "dim_size_min", Val(dim_size),
               IndexMax(Val(index)) + 1)
    ELSE e

\* The handler: what the caller receives for the fault e the strategy raised.
Reinterpret(e, index, dim_size) ==
    IF /\ Caught(e.type)
       /\ ~IsNone(index)
       /\ Len(Val(index)) > 0
       /\ Val(dim_size) <= IndexMax(Val(index))
    THEN Fault("ValueError", "dim_size_min", Val(dim_size),
               IndexMax(Val(index)) + 1)
    ELSE e

\* ---------------------------------- base.py: WeightedAggregation.__call__

\* x.size(dim) of a dim that addresses no axis.
DimensionOutOfRange(x, dim) == Fault("IndexError", "dimension_out_of_range", dim, Rank(x))

\* Faulty variant of WeightSizeBad: the weight is compared with the first axis.
WeightSizeBad_FirstAxis(x, weight, dim) == weight.shape[1] # x.shape[1]

\* weight.size(0) != x.size(dim)
WeightSizeBad(x, weight, dim) == weight.shape[1] # Size(x, dim)

\* The body of WeightedAggregation.__call__ up to its call of
\* Aggregation.__call__: the index it passes on, or the fault it raises.
WeightedValidate(x, index, weight, ptr, dim) ==
    LET synth == IsNone(index) /\ IsNone(ptr)
    IN IF synth /\ SizeRaises(x, dim)
       THEN [fault |-> DimensionOutOfRange(x, dim), index |-> index]
       ELSE LET index1 == IF synth THEN Some(Zeros(Size(x, dim))) ELSE index
            IN IF ~IsNone(weight) /\ Rank(Val(weight)) # 1
               THEN [fault |-> Fault("ValueError", "weight_rank",
                                     Rank(Val(weight)), 0),
                     index |-> index1]
               ELSE IF ~IsNone(weight) /\ SizeRaises(x, dim)
               THEN [fault |-> DimensionOutOfRange(x, dim), index |-> index1]
               ELSE IF ~IsNone(weight) /\ WeightSizeBad(x, Val(weight), dim)
               THEN [fault |-> Fault("ValueError", "weight_size",
                                     Size(x, dim), Val(weight).shape[1]),
                     index |-> index1]
               ELSE [fault |-> NoFault, index |-> index1]

\* -------------------------------------------------------------------- state

VARIABLES
    pc,         \* position of the call: "idle", "w_call", "a_call",
                \* "a_resolve", "a_forward", "done"; "reduce" in SpecReduce
    strategy,   \* the concrete strategy the call is made on
    args,       \* index and dim_size as the caller supplied them
    x,          \* the arguments and locals of __call__ ...
    weight,
    dim,
    index,
    ptr,
    dim_size,
    inspected,  \* grouping arguments Aggregation.__call__ has read so far
    calls,      \* callables entered during the call, in order
    raw,        \* the fault the strategy raised (NoFault if none)
    fault,      \* the fault the caller receives (NoFault if none)
    out,        \* the tensor the call returned (an optional)
    out_ptr     \* SpecReduce: the tensor reduce returned on the ptr path

vars == << pc, strategy, args, x, weight, dim, index, ptr, dim_size,
           inspected, calls, raw, fault, out, out_ptr >>

\* ------------------------------------------------------------------- inputs

Shapes == { << n >> : n \in 0..MaxLen }
            \cup { << n, m >> : n \in 0..MaxLen, m \in 1..MaxLen }

Dims == -3..2

IndexOpts ==
    {None} \cup { Some(s) : s \in UNION { [1..n -> 0..MaxGroup] : n \in 0..MaxLen } }

\* The boundary pointers of up to MaxGroup + 1 groups over n elements.
PtrsFor(n) ==
    UNION { { p \in [1..l -> 0..n] :
                /\ p[1] = 0
                /\ p[l] = n
                /\ \A i \in 1..(l - 1) : p[i] <= p[i + 1] }
            : l \in 1..(MaxGroup + 2) }

\* ptr delimits the elements of x along dim (along the first axis when dim
\* addresses none).
PtrOpts(shape, d) ==
    {None} \cup
    { Some(p) : p \in PtrsFor(IF SizeRaises(Fill(shape, 1), d) THEN shape[1]
                              ELSE Size(Fill(shape, 1), d)) }

DimSizeOpts == {None} \cup { Some(d) : d \in 0..(MaxGroup + 1) }

WeightShapes == { << >> } \cup { << n >> : n \in 0..MaxLen }
                \cup { << MaxLen, 1 >> }

WeightOpts(s) ==
    IF s \in WeightedStrategies
    THEN {None} \cup { Some(Fill(w, 2)) : w \in WeightShapes }
    ELSE {None}

\* --------------------------------------------------------------------- Init

Idle ==
    /\ pc = "idle"
    /\ strategy = "sum"
    /\ args = [index |-> None, dim_size |-> None]
    /\ x = Fill(<< 0 >>, 1)
    /\ weight = None
    /\ dim = 0
    /\ index = None
    /\ ptr = None
    /\ dim_size = None
    /\ inspected = {}
    /\ calls = << >>
    /\ raw = NoFault
    /\ fault = NoFault
    /\ out = None
    /\ out_ptr = None

Init == Idle

\* ------------------------------------------------------------------ actions

\* A caller invokes the strategy object: aggr(x, index, [weight,] ptr,
\* dim_size, dim).
Call ==
    /\ pc = "idle"
    /\ \E s \in CalledStrategies, shape \in Shapes, d \in Dims :
       \E i \in IndexOpts, p \in PtrOpts(shape, d), ds \in DimSizeOpts,
          w \in WeightOpts(s) :
        /\ strategy' = s
        /\ x' = Fill(shape, 1)
        /\ dim' = d
        /\ index' = i
        /\ ptr' = p
        /\ dim_size' = ds
        /\ weight' = w
        /\ args' = [index |-> i, dim_size |-> ds]
        /\ pc' = IF s \in WeightedStrategies THEN "w_call" ELSE "a_call"
        /\ calls' = IF s \in WeightedStrategies
                    THEN << "WeightedAggregation.__call__" >>
                    ELSE << "Aggregation.__call__" >>
    /\ UNCHANGED << inspected, raw, fault, out, out_ptr >>

\* WeightedAggregation.__call__: index synthesis and weight validation, then
\* the call of Aggregation.__call__.
WeightedCall ==
    /\ pc = "w_call"
    /\ LET r == WeightedValidate(x, index, weight, ptr, dim)
       IN /\ index' = r.index
          /\ fault' = r.fault
          /\ pc' = IF r.fault = NoFault THEN "a_call" ELSE "done"
          /\ calls' = IF r.fault = NoFault
                      THEN Append(calls, "Aggregation.__call__") ELSE calls
    /\ UNCHANGED << strategy, args, x, weight, dim, ptr, dim_size, inspected,
                    raw, out, out_ptr >>

\* Aggregation.__call__: the dimension check.
CheckDim ==
    /\ pc = "a_call"
    /\ IF DimInvalid(x, dim)
       THEN fault' = InvalidDimension(x, dim) /\ pc' = "done"
       ELSE fault' = fault /\ pc' = "a_resolve"
    /\ UNCHANGED << strategy, args, x, weight, dim, index, ptr, dim_size,
                    inspected, calls, raw, out, out_ptr >>

\* Faulty variant of Resolve: the strategy is run before the ptr/dim_size check
\* raises.
Resolve_Late ==
    /\ pc = "a_resolve"
    /\ LET r == ResolveGrouping(x, index, ptr, dim_size, dim)
       IN /\ index' = r.index
          /\ dim_size' = r.dim_size
          /\ fault' = r.fault
          /\ pc' = IF r.fault = NoFault THEN "a_forward" ELSE "done"
          /\ calls' = IF r.fault = NoFault THEN calls
                      ELSE Append(calls, "forward")
    /\ inspected' = {"index", "ptr", "dim_size"}
    /\ UNCHANGED << strategy, args, x, weight, dim, ptr, raw, out, out_ptr >>

\* Aggregation.__call__: index synthesis, the ptr/dim_size check and the
\* inference of dim_size.
Resolve ==
    /\ pc = "a_resolve"
    /\ LET r == ResolveGrouping(x, index, ptr, dim_size, dim)
       IN /\ index' = r.index
          /\ dim_size' = r.dim_size
          /\ fault' = r.fault
          /\ pc' = IF r.fault = NoFault THEN "a_forward" ELSE "done"
    /\ inspected' = {"index", "ptr", "dim_size"}
    /\ UNCHANGED << strategy, args, x, weight, dim, ptr, calls, raw, out,
                    out_ptr >>

\* Aggregation.__call__: the strategy's forward under the handler.  The
\* build either ships the segment kernel or does not.
Forward ==
    /\ pc = "a_forward"
    /\ \E withSegment \in BOOLEAN :
        LET r == forward(strategy, x, index, weight, ptr, dim_size, dim,
                         withSegment)
        IN /\ calls' = calls \o r.calls
           /\ raw' = r.fault
           /\ fault' = IF r.fault = NoFault THEN NoFault
                       ELSE Reinterpret(r.fault, index, dim_size)
           /\ out' = r.out
    /\ pc' = "done"
    /\ UNCHANGED << strategy, args, x, weight, dim, index, ptr, dim_size,
                    inspected, out_ptr >>

\* The call has returned or raised; the strategy object is ready for the
\* next call.
Finish ==
    /\ pc = "done"
    /\ pc' = "idle"
    /\ strategy' = "sum"
    /\ args' = [index |-> None, dim_size |-> None]
    /\ x' = Fill(<< 0 >>, 1)
    /\ weight' = None
    /\ dim' = 0
    /\ index' = None
    /\ ptr' = None
    /\ dim_size' = None
    /\ inspected' = {}
    /\ calls' = << >>
    /\ raw' = NoFault
    /\ fault' = NoFault
    /\ out' = None
    /\ out_ptr' = None

Next == Call \/ WeightedCall \/ CheckDim \/ Resolve \/ Forward \/ Finish

Spec == Init /\ [][Next]_vars

\* ------------------------------------------ the reduction primitive alone

\* The element values of the tensors reduce is applied to.
ReduceVals == {-1, 2}

\* The reduction kinds that have a pointer path.
PointerKinds == {"sum", "mean", "max", "min"}

Tensors(shape) ==
    { [shape |-> shape, data |-> d] : d \in [Coords(shape) -> ReduceVals] }

\* The non-decreasing index vectors of n entries: elements sorted into
\* contiguous groups, some of which may hold no element.
SortedIndices(n) ==
    { s \in [1..n -> 0..(MaxGroup + 1)] :
        \A i \in 1..(n - 1) : s[i] <= s[i + 1] }

\* The boundary pointer that delimits the groups of a sorted index:
\* entry g + 1 counts the elements of the groups before g.
PtrOf(s, groups) ==
    [j \in 1..(groups + 1) |->
        Cardinality({ i \in 1..Len(s) : s[i] < j - 1 })]

InitReduce ==
    /\ pc = "reduce"
    /\ strategy \in PointerKinds
    /\ \E shape \in Shapes, d \in Dims :
        /\ ~SizeRaises(Fill(shape, 1), d)
        /\ \A k \in 1..Len(shape) : shape[k] > 0
        /\ x \in Tensors(shape)
        /\ dim = d
        /\ index \in { Some(s) : s \in SortedIndices(Size(Fill(shape, 1), d)) }
    /\ dim_size = Some(IndexMax(Val(index)) + 1)
    /\ ptr = Some(PtrOf(Val(index), Val(dim_size)))
    /\ args = [index |-> index, dim_size |-> dim_size]
    /\ weight = None
    /\ inspected = {}
    /\ calls = << >>
    /\ raw = NoFault
    /\ fault = NoFault
    /\ out = None
    /\ out_ptr = None

\* self.reduce(x, index, dim_size=dim_size, dim=dim, reduce=kind)
ReduceByIndex ==
    /\ pc = "reduce"
    /\ ~Has(calls, "scatter")
    /\ LET r == reduce(x, index, None, dim_size, dim, strategy, TRUE)
       IN out' = r.out /\ calls' = calls \o r.calls
    /\ UNCHANGED << pc, strategy, args, x, weight, dim, index, ptr, dim_size,
                    inspected, raw, fault, out_ptr >>

\* self.reduce(x, ptr=ptr, dim=dim, reduce=kind)
ReduceByPtr ==
    /\ pc = "reduce"
    /\ ~Has(calls, "segment")
    /\ LET r == reduce(x, None, ptr, None, dim, strategy, TRUE)
       IN out_ptr' = r.out /\ calls' = calls \o r.calls
    /\ UNCHANGED << pc, strategy, args, x, weight, dim, index, ptr, dim_size,
                    inspected, raw, fault, out >>

NextReduce == ReduceByIndex \/ ReduceByPtr

SpecReduce == InitReduce /\ [][NextReduce]_vars

\* ================================================================== claims

\* The call has returned or raised.
Done == pc = "done"

\* The body of Aggregation.__call__ has been entered by the current call.
InAggregation == Has(calls, "Aggregation.__call__")

\* The strategy's forward is about to be, or has been, invoked.
AtStrategy == pc = "a_forward" \/ Has(calls, "forward")

\* dim lies in [-rank(x), rank(x) - 1].
DimInRange == dim \in (-Len(x.shape))..(Len(x.shape) - 1)

\* The length of x along the axis dim addresses (dim in range).
AxisLen == x.shape[IF dim < 0 THEN dim + Len(x.shape) + 1 ELSE dim + 1]

\* C1: a call of Aggregation.__call__ ends in the invalid-dimension
\* ValueError (naming dim and the rank) exactly when dim >= rank(x) or
\* dim < -rank(x); a dim in range gets past the check; and the fault is
\* raised before index, ptr or dim_size has been read.
C1_DimensionCheck ==
    /\ pc \in {"a_resolve", "a_forward"} => DimInRange
    /\ Done /\ InAggregation =>
        /\ fault.msg = "invalid_dimension" <=> ~DimInRange
        /\ fault.msg = "invalid_dimension" =>
            /\ fault = Fault("ValueError", "invalid_dimension", dim,
                             Len(x.shape))
            /\ inspected = {}
            /\ index = args.index
            /\ dim_size = args.dim_size

C1_Witness ==
    /\ Done
    /\ calls = << "Aggregation.__call__" >>
    /\ Len(x.shape) = 2
    /\ dim = -3
    /\ ~IsNone(args.index)
    /\ fault = Fault("ValueError", "invalid_dimension", -3, 2)

\* C2: with ptr supplied and dim in range, an absent dim_size resolves to
\* len(ptr) - 1, a supplied dim_size that differs from len(ptr) - 1 ends the
\* call in the invalid-dim_size ValueError naming the given and the expected
\* value, and the strategy, whenever reached with ptr present, receives
\* dim_size = len(ptr) - 1, index supplied or not.
C2_PtrDimSize ==
    /\ AtStrategy /\ ~IsNone(ptr) => dim_size = Some(Len(Val(ptr)) - 1)
    /\ Done /\ InAggregation /\ ~IsNone(ptr) /\ DimInRange =>
        IF ~IsNone(args.dim_size) /\ Val(args.dim_size) # Len(Val(ptr)) - 1
        THEN /\ fault = Fault("ValueError", "dim_size_expected",
                              Val(args.dim_size), Len(Val(ptr)) - 1)
             /\ ~Has(calls, "forward")
        ELSE /\ Has(calls, "forward")
             /\ dim_size = Some(Len(Val(ptr)) - 1)

C2_Witness ==
    /\ Done
    /\ Has(calls, "forward")
    /\ ~IsNone(ptr)
    /\ ~IsNone(args.index)
    /\ IsNone(args.dim_size)
    /\ Len(Val(args.index)) > 0
    /\ dim_size = Some(Len(Val(ptr)) - 1)
    /\ Len(Val(ptr)) - 1 # SeqMax(Val(args.index)) + 1

\* The caller supplied a non-empty index and a dim_size <= max(index).
TooSmallDimSize ==
    /\ ~IsNone(args.index)
    /\ Len(Val(args.index)) > 0
    /\ ~IsNone(args.dim_size)
    /\ Val(args.dim_size) <= SeqMax(Val(args.index))

\* The invalid-dim_size ValueError stating the minimum max(index) + 1.
DimSizeMinFault ==
    Fault("ValueError", "dim_size_min", Val(args.dim_size),
          SeqMax(Val(args.index)) + 1)

\* C3 as stated: every call with a non-empty index and a supplied
\* dim_size <= max(index) returns no tensor and ends in the invalid-dim_size
\* ValueError stating max(index) + 1.
C3_Original ==
    Done /\ TooSmallDimSize => IsNone(out) /\ fault = DimSizeMinFault

\* C3 amended: every call of Aggregation.__call__ with dim in range, ptr
\* absent, a non-empty index and a supplied dim_size <= max(index) returns
\* no tensor and ends in the invalid-dim_size ValueError stating
\* max(index) + 1.
C3_TooSmallDimSize ==
    Done /\ InAggregation /\ DimInRange /\ IsNone(ptr) /\ TooSmallDimSize =>
        IsNone(out) /\ fault = DimSizeMinFault

C3_Witness ==
    /\ Done
    /\ strategy = "mean"
    /\ IsNone(ptr)
    /\ TooSmallDimSize
    /\ Val(args.dim_size) = SeqMax(Val(args.index))
    /\ Has(calls, "scatter")
    /\ raw.type = "IndexError"
    /\ fault = DimSizeMinFault

\* C4: with dim_size and ptr absent, the strategy receives
\* dim_size = max(index) + 1 for a supplied non-empty index and 0 for a
\* supplied empty one; with index and ptr absent it receives an all-zero
\* index of length x.size(dim), and dim_size 1 or 0 as x.size(dim) > 0 or
\* not; a dim_size supplied with index only reaches the strategy unchanged.
C4_GroupCountInference ==
    AtStrategy /\ IsNone(ptr) =>
        /\ ~IsNone(args.index) => index = args.index
        /\ IsNone(args.index) => index = Some([i \in 1..AxisLen |-> 0])
        /\ ~IsNone(args.dim_size) => dim_size = args.dim_size
        /\ IsNone(args.dim_size) /\ ~IsNone(args.index) =>
            dim_size = Some(IF Len(Val(args.index)) > 0
                            THEN SeqMax(Val(args.index)) + 1 ELSE 0)
        /\ IsNone(args.dim_size) /\ IsNone(args.index) =>
            dim_size = Some(IF AxisLen > 0 THEN 1 ELSE 0)

C4_Witness ==
    /\ Done
    /\ Has(calls, "scatter")
    /\ IsNone(ptr)
    /\ IsNone(args.dim_size)
    /\ ~IsNone(args.index)
    /\ Len(Val(args.index)) = MaxLen
    /\ dim_size = Some(MaxGroup + 1)
    /\ ~IsNone(out)

\* C5: in a call of WeightedAggregation.__call__ with a weight and dim in
\* range, a weight that is not rank-1 ends the call in the one-dimensional
\* ValueError reporting its rank, whatever its length; a rank-1 weight
\* whose length differs from x.size(dim) ends it in the size-mismatch
\* ValueError reporting both lengths; a rank-1 weight of matching length
\* raises neither and the call goes on to Aggregation.__call__.
C5_WeightValidation ==
    /\ Has(calls, "WeightedAggregation.__call__")
    /\ pc # "w_call"
    /\ ~IsNone(weight)
    /\ DimInRange
    => IF Len(Val(weight).shape) # 1
       THEN Done /\ fault = Fault("ValueError", "weight_rank",
                                  Len(Val(weight).shape), 0)
       ELSE IF Val(weight).shape[1] # AxisLen
       THEN Done /\ fault = Fault("ValueError", "weight_size", AxisLen,
                                  Val(weight).shape[1])
       ELSE InAggregation /\ fault.msg \notin {"weight_rank", "weight_size"}

C5_Witness ==
    /\ Done
    /\ ~IsNone(weight)
    /\ DimInRange
    /\ Len(Val(weight).shape) = 2
    /\ Val(weight).shape[1] # AxisLen
    /\ fault.msg = "weight_rank"
    /\ calls = << "WeightedAggregation.__call__" >>

\* C6: for the kinds sum, mean, max and min and every non-empty input whose
\* index is sorted into contiguous groups, reduce by index (scatter, with
\* dim_size the number of groups) and reduce by the ptr delimiting the same
\* groups (segment) both return a tensor, and the same one.
C6_IndexPtrEquivalence ==
    pc = "reduce" /\ Has(calls, "scatter") /\ Has(calls, "segment") =>
        /\ ~IsNone(out)
        /\ ~IsNone(out_ptr)
        /\ out = out_ptr

C6_Witness ==
    /\ pc = "reduce"
    /\ Has(calls, "scatter")
    /\ Has(calls, "segment")
    /\ strategy = "max"
    /\ Len(x.shape) = 2
    /\ dim = 1
    /\ Val(index) = << 0, MaxGroup + 1 >>
    /\ Val(ptr) = PtrOf(<< 0, MaxGroup + 1 >>, MaxGroup + 2)
    /\ \A c \in DOMAIN x.data : x.data[c] = -1
    /\ ~IsNone(out)
    /\ out = out_ptr

\* The group count the call resolves to: len(ptr) - 1 with ptr, else the
\* supplied dim_size, else max(index) + 1 (0 for an empty index) of the
\* index in use.
ResolvedDimSize ==
    IF ~IsNone(ptr) THEN Len(Val(ptr)) - 1
    ELSE IF ~IsNone(args.dim_size) THEN Val(args.dim_size)
    ELSE IF Len(Val(index)) > 0 THEN SeqMax(Val(index)) + 1
    ELSE 0

C8_UnsupportedModeReachesCaller ==
    Done /\ raw.type = "NotImplementedError" => fault = raw

\* The faults of the validation at the call boundary.
BoundaryFaults ==
    {"invalid_dimension", "dim_size_expected", "weight_rank", "weight_size"}

\* The strategy's forward or a reduction collaborator has been invoked.
WorkBegun ==
    Has(calls, "forward") \/ Has(calls, "scatter") \/ Has(calls, "segment")

\* C9: a call that ends in an invalid-dimension, ptr/dim_size mismatch or
\* malformed-weight fault has invoked neither the strategy's forward nor
\* scatter nor segment, and none is invoked before the call has passed
\* these checks; the too-small-dim_size fault is raised only after forward
\* has been invoked.
C9_ValidationBeforeWork ==
    /\ WorkBegun => pc \in {"done", "reduce"} /\ fault.msg \notin BoundaryFaults
    /\ fault.msg \in BoundaryFaults => Done /\ ~WorkBegun /\ raw = NoFault
    /\ fault.msg = "dim_size_min" => Done /\ Has(calls, "forward")

C9_Witness ==
    /\ Done
    /\ calls = << "WeightedAggregation.__call__", "Aggregation.__call__" >>
    /\ fault.msg = "dim_size_expected"
    /\ ~IsNone(weight)
    /\ ~IsNone(args.index)

\* A shape or index fault of the reduction collaborators.
ShapeOrIndexFault(e) == e.msg \in {"shape_mismatch", "index_out_of_range"}

\* C10 as stated: the fault the strategy raised is replaced by the
\* invalid-dim_size ValueError only if it is a shape/index fault and index
\* is present, non-empty and dim_size <= max(index); in every other case
\* the caller receives the fault as raised.
C10_ReinterpretationRule ==
    Done /\ raw # NoFault =>
        IF /\ ShapeOrIndexFault(raw)
           /\ ~IsNone(index)
           /\ Len(Val(index)) > 0
           /\ Val(dim_size) <= SeqMax(Val(index))
        THEN fault = Fault("ValueError", "dim_size_min", Val(dim_size),
                           SeqMax(Val(index)) + 1)
        ELSE fault = raw

\* C11 as stated: every call of WeightedAggregation.__call__ with dim
\* outside [-rank(x), rank(x) - 1] ends in the invalid-dimension ValueError
\* of Aggregation.__call__ (naming dim and the rank), whatever index, ptr
\* and weight are, and in no other fault.
C11_WeightedDimensionCheck ==
    Done /\ Has(calls, "WeightedAggregation.__call__") /\ ~DimInRange =>
        fault = Fault("ValueError", "invalid_dimension", dim, Len(x.shape))

====
